---- MODULE Spec2Model ----
(***************************************************************************)
(* The linked-interaction coordinator of the AI-papers dashboard: the      *)
(* interaction state held by Home (nextjs_app/components/Controls.js,      *)
(* lines 138-145) and the handlers that change it (lines 191-236).         *)
(* One action per handler; an event is one handler call followed by the    *)
(* re-render that hands the new state to the next event.                   *)
(* Around it the shell of the application: the load of the five static     *)
(* files (lines 129-136, 148-188), the three screens Home renders (lines   *)
(* 239-264), and the views with the listeners they bind (MapView.js,       *)
(* TimeSeriesPanel.js, NodeLinkGraph.js).                                  *)
(***************************************************************************)
EXTENDS Integers, Sequences, FiniteSets, TLC

VARIABLES
    selectedYear,       \* useState(2024)
    yearRange,          \* useState([2010, 2025])
    selectedCountry,    \* useState(null)
    comparedCountries,  \* useState([])
    selectedSubfield,   \* useState(null)
    hoveredCountry,     \* useState(null)
    viewMode,           \* useState('absolute')
    countryYearData,    \* useState([])
    countrySummary,     \* useState([])
    subfieldData,       \* useState([])
    nodeLinkData,       \* useState({})
    worldGeo,           \* useState(null)
    loading,            \* useState(true)
    error,              \* useState(null)
    loadPc,             \* where loadData stands: "fetching", "parsing", "done"
    responses,          \* the five fetch() promises
    bodies,             \* the five json() promises
    expandedField,      \* NodeLinkGraph: useState(null)
    memo,               \* the handlers useCallback gave Home's last render
    bound,              \* the handlers the views' listeners were bound to
    placed,             \* the countries whose nodeLinkData nodes carry x and y fields
    selStreak,          \* history: the run of selectCountry(x) events in progress
    scenario,           \* history: how much of its script the run has replayed so far
    track               \* history: which script the run is measured against

interaction == <<selectedYear, yearRange, selectedCountry, comparedCountries,
                 selectedSubfield, hoveredCountry, viewMode>>
history == <<selStreak, scenario>>
datasets == <<countryYearData, countrySummary, subfieldData, nodeLinkData, worldGeo>>
load == <<loading, error, loadPc, responses, bodies>>
shell == <<datasets, load, expandedField, memo, bound, placed>>
\* What no coordinator operation writes
fixed == <<track, shell>>
vars == <<interaction, history, fixed>>

-----------------------------------------------------------------------------
(* Values *)

\* JavaScript null
Null == "null"

\* Year slider limits and the initial year
MinYear == 2010
MaxYear == 2025
DefaultYear == 2024

\* prev.slice(-4): how many earlier entries survive an append
KeepLast == 4

\* "Compares up to 5 selected countries"
ComparedLimit == 5

\* Bounds of the model
NumCountries == 6
YearSlack == 1

CountryCodes == <<"US", "CN", "DE", "JP", "IN", "GB", "FR", "BR">>
Countries == {CountryCodes[i] : i \in 1..NumCountries}

SubfieldNames == <<"Computer Vision", "Natural Language Processing", "Robotics",
                   "Reinforcement Learning">>

\* How many of the subfield names the subfield payloads range over
NumSubfields == 2
Subfields == {SubfieldNames[i] : i \in 1..NumSubfields}

\* A country code and a subfield name that no dataset and no view holds
UnknownCountry == "ZZ"
UnknownSubfield == "Quantum Computing"

ViewModes == {"absolute", "growth"}

\* Year payloads a caller can hand to setYear and setYearRange: both slider
\* limits, the initial year, and the years up to YearSlack outside the limits.
YearInputs == {MinYear, DefaultYear, MaxYear}
                \cup ((MinYear - YearSlack)..(MinYear - 1))
                \cup ((MaxYear + 1)..(MaxYear + YearSlack))
RangeInputs == {<<a, b>> : a \in YearInputs, b \in YearInputs}

-----------------------------------------------------------------------------
(* Array helpers, as JavaScript computes them *)

Max(a, b) == IF a >= b THEN a ELSE b
Min(a, b) == IF a <= b THEN a ELSE b

Range(seq) == {seq[i] : i \in 1..Len(seq)}

\* Array.prototype.includes
includes(arr, x) == \E i \in 1..Len(arr) : arr[i] = x

\* Array.prototype.slice(start): a negative start counts from the end
slice(arr, start) ==
    LET from == IF start < 0 THEN Max(Len(arr) + start, 0)
                ELSE Min(start, Len(arr))
    IN  SubSeq(arr, from + 1, Len(arr))

\* prev.filter((c) => c !== countryCode)
filterOut(arr, countryCode) == SelectSeq(arr, LAMBDA c : c # countryCode)

-----------------------------------------------------------------------------
(* What each handler computes.  A handler reads selectedCountry,           *)
(* comparedCountries and selectedSubfield from the render it was created   *)
(* in (seenSelected, seenCompared, seenSubfield) and hands React either a  *)
(* value or an updater applied to the latest state (prev).                 *)

\* Variants of the updater: without the slice; slicing from the front
\* (slice(0, 4)); adding in front.
appendKeepingAll(prev, countryCode) == Append(prev, countryCode)
appendDroppingNewest(prev, countryCode) ==
    Append(SubSeq(prev, 1, Min(Len(prev), KeepLast)), countryCode)
prependKeepingLast(prev, countryCode) == <<countryCode>> \o slice(prev, -KeepLast)

\* (prev) => [...prev.slice(-4), countryCode]
appendKeepingLast(prev, countryCode) == Append(slice(prev, -KeepLast), countryCode)

\* Variant: a code other than US and CN is ignored
selectedAfterSelectListedOnly(seenSelected, countryCode) ==
    IF countryCode \notin {"US", "CN"} THEN seenSelected
    ELSE IF countryCode = seenSelected THEN Null ELSE countryCode

\* Variant: no deselect branch
selectedAfterSelectNoToggle(seenSelected, countryCode) == countryCode

\* handleCountrySelect: the value given to setSelectedCountry
selectedAfterSelect(seenSelected, countryCode) ==
    IF countryCode = seenSelected THEN Null ELSE countryCode

\* Variant: no includes() test before the append
comparedAfterSelectUnchecked(seenSelected, seenCompared, prev, countryCode) ==
    IF countryCode = seenSelected THEN prev
    ELSE appendKeepingLast(prev, countryCode)

\* Variant: a compared country selected again moves to the end of the list
comparedAfterSelectMovingLast(seenSelected, seenCompared, prev, countryCode) ==
    IF countryCode = seenSelected THEN prev
    ELSE IF ~includes(seenCompared, countryCode)
         THEN appendKeepingLast(prev, countryCode)
         ELSE Append(filterOut(prev, countryCode), countryCode)

\* handleCountrySelect: the resulting comparedCountries
comparedAfterSelect(seenSelected, seenCompared, prev, countryCode) ==
    IF countryCode = seenSelected THEN prev
    ELSE IF ~includes(seenCompared, countryCode)
         THEN appendKeepingLast(prev, countryCode)
         ELSE prev

\* Variant: the filter's test inverted (c === countryCode)
comparedAfterRemoveInverted(prev, countryCode) ==
    SelectSeq(prev, LAMBDA c : c = countryCode)

\* handleRemoveComparison: the resulting comparedCountries
comparedAfterRemove(prev, countryCode) == filterOut(prev, countryCode)

\* Variant: the selection is never cleared
selectedAfterRemoveKept(seenSelected, current, countryCode) == current

\* handleRemoveComparison: the resulting selectedCountry
selectedAfterRemove(seenSelected, current, countryCode) ==
    IF seenSelected = countryCode THEN Null ELSE current

\* Variant: setSelectedCountry(null) left out
selectedAfterClearKept == selectedCountry

\* handleClearComparisons: the values given to the two setters
comparedAfterClear == << >>
selectedAfterClear == Null

\* Variant: the year clamped into the slider's range
yearClamped(year) == Max(MinYear, Min(MaxYear, year))

\* handleYearChange: the value given to setSelectedYear
yearAfterChange(year) == year

\* A range with start <= end and both ends within the slider's range
ValidRange(range) ==
    /\ range[1] <= range[2]
    /\ range[1] \in MinYear..MaxYear
    /\ range[2] \in MinYear..MaxYear

\* Variant: an invalid range rejected
rangeValidated(prev, range) == IF ValidRange(range) THEN range ELSE prev

\* handleYearRangeChange: the value given to setYearRange
rangeAfterChange(prev, range) == range

\* Variant: no test against the current subfield
subfieldAfterSelectNoToggle(seenSubfield, subfield) == subfield

\* handleSubfieldSelect: the value given to setSelectedSubfield
subfieldAfterSelect(seenSubfield, subfield) ==
    IF subfield = seenSubfield THEN Null ELSE subfield

\* Variant: a hover without a country keeps the country hovered before
hoveredAfterHoverSticky(countryCode) ==
    IF countryCode = Null THEN hoveredCountry ELSE countryCode

\* handleCountryHover: the value given to setHoveredCountry
hoveredAfterHover(countryCode) == countryCode

\* Variant: the mode can be switched to growth and not back
viewModeAfterChangeOneWay(mode) == "growth"

\* onViewModeChange={setViewMode}: the setter itself is the handler
viewModeAfterChange(mode) == mode

-----------------------------------------------------------------------------
(* The handlers as steps of the interaction state *)

handleCountrySelect(countryCode) ==
    /\ selectedCountry' = selectedAfterSelect(selectedCountry, countryCode)
    /\ comparedCountries' = comparedAfterSelect(selectedCountry, comparedCountries,
                                                comparedCountries, countryCode)
    /\ UNCHANGED <<selectedYear, yearRange, selectedSubfield, hoveredCountry, viewMode>>

handleRemoveComparison(countryCode) ==
    /\ comparedCountries' = comparedAfterRemove(comparedCountries, countryCode)
    /\ selectedCountry' = selectedAfterRemove(selectedCountry, selectedCountry, countryCode)
    /\ UNCHANGED <<selectedYear, yearRange, selectedSubfield, hoveredCountry, viewMode>>

handleClearComparisons ==
    /\ comparedCountries' = comparedAfterClear
    /\ selectedCountry' = selectedAfterClear
    /\ UNCHANGED <<selectedYear, yearRange, selectedSubfield, hoveredCountry, viewMode>>

handleYearChange(year) ==
    /\ selectedYear' = yearAfterChange(year)
    /\ UNCHANGED <<yearRange, selectedCountry, comparedCountries, selectedSubfield,
                   hoveredCountry, viewMode>>

handleYearRangeChange(range) ==
    /\ yearRange' = rangeAfterChange(yearRange, range)
    /\ UNCHANGED <<selectedYear, selectedCountry, comparedCountries, selectedSubfield,
                   hoveredCountry, viewMode>>

\* Variant: a subfield change that also drops the country selection
handleSubfieldSelectResetting(subfield) ==
    /\ selectedSubfield' = subfieldAfterSelect(selectedSubfield, subfield)
    /\ selectedCountry' = Null
    /\ UNCHANGED <<selectedYear, yearRange, comparedCountries, hoveredCountry, viewMode>>

handleSubfieldSelect(subfield) ==
    /\ selectedSubfield' = subfieldAfterSelect(selectedSubfield, subfield)
    /\ UNCHANGED <<selectedYear, yearRange, selectedCountry, comparedCountries,
                   hoveredCountry, viewMode>>

handleCountryHover(countryCode) ==
    /\ hoveredCountry' = hoveredAfterHover(countryCode)
    /\ UNCHANGED <<selectedYear, yearRange, selectedCountry, comparedCountries,
                   selectedSubfield, viewMode>>

\* Variant: a change of the view mode also drops the subfield
handleViewModeChangeUnscoping(mode) ==
    /\ viewMode' = viewModeAfterChange(mode)
    /\ selectedSubfield' = Null
    /\ UNCHANGED <<selectedYear, yearRange, selectedCountry, comparedCountries,
                   hoveredCountry>>

handleViewModeChange(mode) ==
    /\ viewMode' = viewModeAfterChange(mode)
    /\ UNCHANGED <<selectedYear, yearRange, selectedCountry, comparedCountries,
                   selectedSubfield, hoveredCountry>>

-----------------------------------------------------------------------------
(* The handlers as functions of an interaction state given as a record:    *)
(* what a sequence of events makes of a state when each event is applied   *)
(* to the state the one before it left.                                    *)

\* The interaction state of the current render
State ==
    [selectedYear |-> selectedYear, yearRange |-> yearRange,
     selectedCountry |-> selectedCountry, comparedCountries |-> comparedCountries,
     selectedSubfield |-> selectedSubfield, hoveredCountry |-> hoveredCountry,
     viewMode |-> viewMode]

\* Home's useState initial values
Defaults ==
    [selectedYear |-> DefaultYear, yearRange |-> <<MinYear, MaxYear>>,
     selectedCountry |-> Null, comparedCountries |-> << >>,
     selectedSubfield |-> Null, hoveredCountry |-> Null, viewMode |-> "absolute"]

applyEvent(s, ev) ==
    CASE ev.op = "selectCountry" ->
           [s EXCEPT !.selectedCountry = selectedAfterSelect(s.selectedCountry, ev.arg),
                     !.comparedCountries =
                         comparedAfterSelect(s.selectedCountry, s.comparedCountries,
                                             s.comparedCountries, ev.arg)]
      [] ev.op = "removeComparison" ->
           [s EXCEPT !.comparedCountries = comparedAfterRemove(s.comparedCountries, ev.arg),
                     !.selectedCountry =
                         selectedAfterRemove(s.selectedCountry, s.selectedCountry, ev.arg)]
      [] ev.op = "clearComparisons" ->
           [s EXCEPT !.comparedCountries = comparedAfterClear,
                     !.selectedCountry = selectedAfterClear]
      [] ev.op = "setYear" ->
           [s EXCEPT !.selectedYear = yearAfterChange(ev.arg)]
      [] ev.op = "setYearRange" ->
           [s EXCEPT !.yearRange = rangeAfterChange(s.yearRange, ev.arg)]
      [] ev.op = "selectSubfield" ->
           [s EXCEPT !.selectedSubfield = subfieldAfterSelect(s.selectedSubfield, ev.arg)]
      [] ev.op = "hoverCountry" ->
           [s EXCEPT !.hoveredCountry = hoveredAfterHover(ev.arg)]
      [] ev.op = "setViewMode" ->
           [s EXCEPT !.viewMode = viewModeAfterChange(ev.arg)]

RECURSIVE applyAll(_, _)
applyAll(s, events) ==
    IF events = << >> THEN s
    ELSE applyAll(applyEvent(s, Head(events)), Tail(events))

-----------------------------------------------------------------------------
(* The static files and what is in them.  A dataset variable holds the     *)
(* version of the file it was parsed from; the operators below give the    *)
(* records of that version, with the fields the views read.                *)

\* JavaScript truthiness of null and of strings
Truthy(x) == x # Null /\ x # ""

\* The five files loadData fetches
Files == {"/ai_papers_country_year.json", "/ai_papers_country_summary.json",
          "/ai_papers_country_year_subfield.json", "/node_link_by_country.json",
          "/world-50m.json"}

\* useState([]) and useState({}): the datasets before the load
EmptyArray == "[]"
EmptyObject == "{}"

\* What the server can hold: every file filled, or the subfield file an
\* empty array
Versions == {"full", "totals"}

\* The countries, years and subfields the sample records are about, in file order
DataCountries == <<CountryCodes[1], CountryCodes[2]>>
DataCountryNames == <<"United States", "China">>
DataYears == <<MaxYear, MinYear, DefaultYear>>
DataSubfields == <<SubfieldNames[4], SubfieldNames[1]>>

TotalPapers(ci, year) == 100 * ci + 10 * (year - MinYear) * (3 - ci)
SubfieldPapers(ci, year, si) == (year - MinYear) * si * ci
GrowthRatio(ci) == 3 + ci

\* ai_papers_country_year.json: {country_code, country, year, papers}
CountryYearFile ==
    [k \in 1..(Len(DataCountries) * Len(DataYears)) |->
        LET ci == ((k - 1) \div Len(DataYears)) + 1
            yi == ((k - 1) % Len(DataYears)) + 1
        IN  [country_code |-> DataCountries[ci], country |-> DataCountryNames[ci],
             year |-> DataYears[yi], papers |-> TotalPapers(ci, DataYears[yi])]]

\* ai_papers_country_summary.json: {country_code, country, growth_ratio}
CountrySummaryFile ==
    [ci \in 1..Len(DataCountries) |->
        [country_code |-> DataCountries[ci], country |-> DataCountryNames[ci],
         growth_ratio |-> GrowthRatio(ci)]]

\* ai_papers_country_year_subfield.json:
\* {country_code, country, year, subfield, papers}
SubfieldFile ==
    [k \in 1..(Len(DataSubfields) * Len(DataCountries) * Len(DataYears)) |->
        LET si == ((k - 1) \div (Len(DataCountries) * Len(DataYears))) + 1
            ci == (((k - 1) \div Len(DataYears)) % Len(DataCountries)) + 1
            yi == ((k - 1) % Len(DataYears)) + 1
        IN  [country_code |-> DataCountries[ci], country |-> DataCountryNames[ci],
             year |-> DataYears[yi], subfield |-> DataSubfields[si],
             papers |-> SubfieldPapers(ci, DataYears[yi], si)]]

\* The records a dataset variable holds
countryYearRecords(file) == IF file \in Versions THEN CountryYearFile ELSE << >>
countrySummaryRecords(file) == IF file \in Versions THEN CountrySummaryFile ELSE << >>
subfieldRecords(file) == IF file = "full" THEN SubfieldFile ELSE << >>

\* The four main fields of the graph
MainFields == <<"Computer Vision", "Natural Language Processing", "Robotics", "Theory">>

mainNode(id, count) == [id |-> id, type |-> "main", parent |-> Null, count |-> count]
subNode(id, parent, count) == [id |-> id, type |-> "sub", parent |-> parent, count |-> count]

\* node_link_by_country.json: per country {nodes, links}; the first country
\* has a graph with two subfield nodes, one of them a subfield of the records
NodeLinkFile ==
    [c \in {DataCountries[1]} |->
        [nodes |-> << mainNode(MainFields[1], 50), mainNode(MainFields[2], 40),
                      mainNode(MainFields[3], 30), mainNode(MainFields[4], 20),
                      subNode("Object Detection", MainFields[1], 12),
                      subNode(DataSubfields[1], MainFields[4], 8) >>,
         links |-> << [source |-> MainFields[1], target |-> "Object Detection"],
                      [source |-> MainFields[4], target |-> DataSubfields[1]] >>]]

nodeLinkGraphs(file) == IF file \in Versions THEN NodeLinkFile ELSE << >>

\* world-50m.json: the country shapes, each with its ISO_A2 property and its
\* numeric id; the last one has neither a usable property nor a listed id
ShapeOfUS == [ISO_A2 |-> "US", id |-> "840"]
ShapeOfCN == [ISO_A2 |-> "-99", id |-> "156"]
ShapeOfDE == [ISO_A2 |-> "-99", id |-> "276"]
ShapeUnresolved == [ISO_A2 |-> "-99", id |-> "-99"]
Shapes == {ShapeOfUS, ShapeOfCN, ShapeOfDE, ShapeUnresolved}

worldShapes(file) == IF file \notin Versions THEN {} ELSE Shapes

-----------------------------------------------------------------------------
(* MapView *)

\* NUMERIC_TO_ALPHA2[numericId], Null where the table has no entry
NUMERIC_TO_ALPHA2(numericId) ==
    CASE numericId = "156" -> "CN"
      [] numericId = "276" -> "DE"
      [] numericId = "840" -> "US"
      [] OTHER -> Null

getCountryCode(feature) ==
    IF Truthy(feature.ISO_A2) /\ feature.ISO_A2 # "-99"
    THEN feature.ISO_A2
    ELSE IF Truthy(feature.id) /\ NUMERIC_TO_ALPHA2(feature.id) # Null
         THEN NUMERIC_TO_ALPHA2(feature.id)
         ELSE Null

\* new Map(entries.map((d) => [d.country_code, d.papers])): a later entry
\* for a code replaces an earlier one
mapOfPapers(entries) ==
    [c \in {entries[i].country_code : i \in DOMAIN entries} |->
        LET last == CHOOSE i \in DOMAIN entries :
                       /\ entries[i].country_code = c
                       /\ \A j \in DOMAIN entries : entries[j].country_code = c => j <= i
        IN  entries[last].papers]

\* Variant: the subfield records are never consulted
yearDataOfTotals(s) ==
    LET data == countryYearRecords(countryYearData)
    IN  IF Len(data) = 0 THEN << >>
        ELSE mapOfPapers(SelectSeq(data, LAMBDA d : d.year = s.selectedYear))

\* yearData, for the interaction state s
yearData(s) ==
    LET data == countryYearRecords(countryYearData)
        subs == subfieldRecords(subfieldData)
    IN  IF Len(data) = 0 THEN << >>
        ELSE IF Truthy(s.selectedSubfield) /\ Len(subs) # 0
             THEN mapOfPapers(SelectSeq(subs, LAMBDA d : /\ d.year = s.selectedYear
                                                          /\ d.subfield = s.selectedSubfield))
             ELSE mapOfPapers(SelectSeq(data, LAMBDA d : d.year = s.selectedYear))

\* d3.extent and d3.max of a set of numbers; nothing for the empty set
extent(values) ==
    IF values = {} THEN << >>
    ELSE << CHOOSE v \in values : \A w \in values : v <= w,
            CHOOSE v \in values : \A w \in values : v >= w >>
d3max(values) ==
    IF values = {} THEN 0 ELSE CHOOSE v \in values : \A w \in values : v >= w

\* colorScale: the palette and the domain of the scale
colorScale(s) ==
    IF s.viewMode = "growth"
    THEN LET summary == countrySummaryRecords(countrySummary)
             growthValues == {summary[i].growth_ratio : i \in DOMAIN summary} \ {0}
         IN  [palette |-> "GROWTH_COLORS", domain |-> extent(growthValues)]
    ELSE LET yd == yearData(s)
             values == {yd[c] : c \in DOMAIN yd} \ {0}
             maxVal == IF d3max(values) = 0 THEN 1 ELSE d3max(values)
         IN  [palette |-> "PAPER_COUNT_COLORS", domain |-> <<1, maxVal>>]

\* Variant: the growth branch left out
getValueOfYear(s, countryCode) ==
    IF countryCode \in DOMAIN yearData(s) THEN yearData(s)[countryCode] ELSE 0

\* getValue: x || null gives null for a missing and for a zero value, and
\* getColor treats null and 0 alike; both are 0 here
getValue(s, countryCode) ==
    IF s.viewMode = "growth"
    THEN LET summary == countrySummaryRecords(countrySummary)
             found == {i \in DOMAIN summary : summary[i].country_code = countryCode}
         IN  IF found = {} THEN 0
             ELSE summary[CHOOSE i \in found : \A j \in found : i <= j].growth_ratio
    ELSE IF countryCode \in DOMAIN yearData(s) THEN yearData(s)[countryCode] ELSE 0

\* '#0a0e1a'
NoDataColor == [palette |-> "#0a0e1a", domain |-> << >>, value |-> 0]

\* getColor: a colour is the scale it was taken from and the value put in
getColor(s, countryCode) ==
    LET value == getValue(s, countryCode)
    IN  IF value = 0 THEN NoDataColor
        ELSE [palette |-> colorScale(s).palette, domain |-> colorScale(s).domain,
              value |-> value]

\* .attr('fill', (d) => getColor(getCountryCode(d)))
mapFill(s, feature) == getColor(s, getCountryCode(feature))

-----------------------------------------------------------------------------
(* Controls *)

\* Variant: pink and cyan change places
ControlsCOUNTRY_COLORSSwapped ==
    <<"#f472b6", "#22d3ee", "#4ade80", "#fbbf24", "#a78bfa", "#fb7185">>

\* COUNTRY_COLORS of Controls.js
ControlsCOUNTRY_COLORS ==
    <<"#22d3ee", "#f472b6", "#4ade80", "#fbbf24", "#a78bfa", "#fb7185">>

\* comparedCountryNames: the tag of each compared country
comparedCountryNames(s) ==
    [index \in 1..Len(s.comparedCountries) |->
        LET code == s.comparedCountries[index]
            summary == countrySummaryRecords(countrySummary)
            found == {i \in DOMAIN summary : summary[i].country_code = code}
        IN  [code |-> code,
             name |-> IF found = {} THEN code
                      ELSE summary[CHOOSE i \in found : \A j \in found : i <= j].country,
             color |-> ControlsCOUNTRY_COLORS[((index - 1) % Len(ControlsCOUNTRY_COLORS)) + 1]]]

-----------------------------------------------------------------------------
(* TimeSeriesPanel *)

\* Variant: a palette of four colours
COUNTRY_COLORSOfFour == <<"#22d3ee", "#f472b6", "#4ade80", "#fbbf24">>

\* COUNTRY_COLORS of TimeSeriesPanel.js
COUNTRY_COLORS == <<"#22d3ee", "#f472b6", "#4ade80", "#fbbf24", "#a78bfa", "#fb7185">>

\* arr.sort((a, b) => a.year - b.year), which is stable
RECURSIVE sortByYear(_)
sortByYear(arr) ==
    IF Len(arr) <= 1 THEN arr
    ELSE LET rest == sortByYear(Tail(arr))
             before == SelectSeq(rest, LAMBDA d : d.year < Head(arr).year)
             after == SelectSeq(rest, LAMBDA d : d.year >= Head(arr).year)
         IN  before \o <<Head(arr)>> \o after

\* The records the series are drawn from
sourceData(s) ==
    IF Truthy(s.selectedSubfield) /\ Len(subfieldRecords(subfieldData)) # 0
    THEN SelectSeq(subfieldRecords(subfieldData), LAMBDA d : d.subfield = s.selectedSubfield)
    ELSE countryYearRecords(countryYearData)

\* Variant: with no compared country, the countries of the records are shown
timeSeriesDataWithDefaults(s) ==
    IF Len(countryYearRecords(countryYearData)) = 0 THEN << >>
    ELSE LET source == sourceData(s)
             codes == IF Len(s.comparedCountries) = 0 THEN DataCountries
                      ELSE s.comparedCountries
         IN
         [i \in 1..Len(codes) |->
            LET code == codes[i]
                countryData == sortByYear(SelectSeq(source,
                                                    LAMBDA d : d.country_code = code))
            IN  [code |-> code,
                 name |-> IF Len(countryData) > 0 THEN countryData[1].country ELSE code,
                 color |-> COUNTRY_COLORS[((i - 1) % Len(COUNTRY_COLORS)) + 1],
                 values |-> [k \in 1..Len(countryData) |->
                               [year |-> countryData[k].year,
                                papers |-> countryData[k].papers]]]]

\* timeSeriesData: one series for each compared country

timeSeriesData(s) ==
    IF Len(countryYearRecords(countryYearData)) = 0 THEN << >>
    ELSE IF Len(s.comparedCountries) = 0 THEN << >>
    ELSE LET source == sourceData(s) IN
         [i \in 1..Len(s.comparedCountries) |->
            LET code == s.comparedCountries[i]
                countryData == sortByYear(SelectSeq(source,
                                                    LAMBDA d : d.country_code = code))
            IN  [code |-> code,
                 name |-> IF Len(countryData) > 0 THEN countryData[1].country ELSE code,
                 color |-> COUNTRY_COLORS[((i - 1) % Len(COUNTRY_COLORS)) + 1],
                 values |-> [k \in 1..Len(countryData) |->
                               [year |-> countryData[k].year,
                                papers |-> countryData[k].papers]]]]

-----------------------------------------------------------------------------
(* NodeLinkGraph *)

\* graphData: the selected country's graph, or four main fields without papers
graphData(s) ==
    IF ~Truthy(s.selectedCountry)
       \/ s.selectedCountry \notin DOMAIN nodeLinkGraphs(nodeLinkData)
    THEN [nodes |-> << mainNode(MainFields[1], 0), mainNode(MainFields[2], 0),
                       mainNode(MainFields[3], 0), mainNode(MainFields[4], 0) >>,
          links |-> << >>]
    ELSE nodeLinkGraphs(nodeLinkData)[s.selectedCountry]

\* Variant: with a field expanded, the sub nodes of every field are shown
filteredDataOfAllFields(s, expanded) ==
    LET mainNodes == SelectSeq(graphData(s).nodes, LAMBDA n : n.type = "main")
    IN  IF ~Truthy(expanded)
        THEN [nodes |-> mainNodes, links |-> << >>]
        ELSE [nodes |-> mainNodes
                        \o SelectSeq(graphData(s).nodes, LAMBDA n : n.type = "sub"),
              links |-> SelectSeq(graphData(s).links, LAMBDA l : l.source = expanded)]

\* filteredData: the main nodes, and the sub nodes of the expanded field
filteredData(s, expanded) ==
    LET mainNodes == SelectSeq(graphData(s).nodes, LAMBDA n : n.type = "main")
    IN  IF ~Truthy(expanded)
        THEN [nodes |-> mainNodes, links |-> << >>]
        ELSE [nodes |-> mainNodes
                        \o SelectSeq(graphData(s).nodes,
                                     LAMBDA n : n.type = "sub" /\ n.parent = expanded),
              links |-> SelectSeq(graphData(s).links, LAMBDA l : l.source = expanded)]

-----------------------------------------------------------------------------
(* History of the run, kept beside the state for the statements about      *)
(* sequences of events.  No handler reads it.                              *)

Event(op, arg) == [op |-> op, arg |-> arg]

\* One run from the defaults, event by event.  Events 1-3 are the spec's
\* first scenario; 8-12 fill the list and push a sixth country into it.
Script ==
    << Event("selectCountry", "US"),
       Event("selectCountry", "CN"),
       Event("selectCountry", "US"),
       Event("selectCountry", "CN"),
       Event("removeComparison", "CN"),
       Event("selectCountry", "DE"),
       Event("removeComparison", "US"),
       Event("selectCountry", "US"),
       Event("selectCountry", "CN"),
       Event("selectCountry", "JP"),
       Event("selectCountry", "IN"),
       Event("selectCountry", "GB"),
       Event("selectCountry", "GB"),
       Event("selectCountry", "US"),
       Event("setYear", MinYear),
       Event("setViewMode", "growth"),
       Event("hoverCountry", "US"),
       Event("selectSubfield", SubfieldNames[1]),
       Event("setYearRange", <<MaxYear, MinYear>>),
       Event("clearComparisons", Null) >>

\* A run that fills the list, selects its first entry again and pushes a
\* sixth country into it.
QueueScript ==
    << Event("selectCountry", "US"),
       Event("selectCountry", "CN"),
       Event("selectCountry", "JP"),
       Event("selectCountry", "IN"),
       Event("selectCountry", "GB"),
       Event("selectCountry", "US"),
       Event("selectCountry", "DE") >>

\* A run over the fields beside the country ones.  Events 1-4 toggle and
\* switch the subfield; 5-11 move every field off its default; 12-17 bring
\* every field back; 18-19 hand over a code and a name no dataset holds.
FieldScript ==
    << Event("selectSubfield", SubfieldNames[1]),
       Event("selectSubfield", SubfieldNames[1]),
       Event("selectSubfield", SubfieldNames[1]),
       Event("selectSubfield", SubfieldNames[2]),
       Event("selectCountry", "US"),
       Event("selectCountry", "CN"),
       Event("setYear", MinYear),
       Event("setYearRange", <<MaxYear, MinYear>>),
       Event("hoverCountry", "US"),
       Event("setViewMode", "growth"),
       Event("selectSubfield", SubfieldNames[1]),
       Event("clearComparisons", Null),
       Event("setYear", DefaultYear),
       Event("setYearRange", <<MinYear, MaxYear>>),
       Event("selectSubfield", SubfieldNames[1]),
       Event("hoverCountry", Null),
       Event("setViewMode", "absolute"),
       Event("selectCountry", UnknownCountry),
       Event("selectSubfield", UnknownSubfield) >>

\* A run on the views.  Events 1-3 move the pointer onto a second country
\* before it leaves the first; 4-5 change the year in growth mode; 6-10
\* select a subfield of the first country in growth mode, go back to
\* absolute mode and clear the subfield; 11-13 remove a compared country
\* and select it again; 14-15 select a compared country by its legend entry
\* and deselect it by one of its dots.
ViewScript ==
    << Event("mapMouseEnter", ShapeOfUS),
       Event("mapMouseEnter", ShapeOfCN),
       Event("mapMouseLeave", ShapeOfUS),
       Event("viewModeButton", "growth"),
       Event("yearSlider", MinYear),
       Event("mapClick", ShapeOfUS),
       Event("mainNodeClick", MainFields[4]),
       Event("subNodeClick", DataSubfields[1]),
       Event("viewModeButton", "absolute"),
       Event("subNodeClick", DataSubfields[1]),
       Event("mapClick", ShapeOfCN),
       Event("removeTag", "US"),
       Event("mapClick", ShapeOfUS),
       Event("legendClick", "CN"),
       Event("dotClick", "CN") >>

Off == 0 - 1

\* The script of each track
ScriptOf(t) ==
    CASE t = "fields" -> FieldScript
      [] t = "views" -> ViewScript
      [] t = "queue" -> QueueScript
      [] OTHER -> Script

\* scenario = k: the run so far is exactly the first k events of its script
scenarioAfter(op, arg) ==
    IF /\ scenario >= 0
       /\ scenario < Len(ScriptOf(track))
       /\ ScriptOf(track)[scenario + 1].op = op
       /\ ScriptOf(track)[scenario + 1].arg = arg
    THEN scenario + 1
    ELSE Off

NoStreak == [code |-> Null, n |-> 0]

\* selectCountry(countryCode): a first call on a country that is not the
\* selected one starts a run, the same call straight after it makes it two.
streakAfterSelect(countryCode) ==
    IF selStreak.code = countryCode /\ selStreak.n = 1
    THEN [code |-> countryCode, n |-> 2]
    ELSE IF selectedCountry # countryCode
         THEN [code |-> countryCode, n |-> 1]
         ELSE NoStreak

-----------------------------------------------------------------------------
(* The coordinator's operations: one event each *)

selectCountry(code) ==
    /\ handleCountrySelect(code)
    /\ selStreak' = streakAfterSelect(code)
    /\ scenario' = scenarioAfter("selectCountry", code)
    /\ UNCHANGED fixed

removeComparison(code) ==
    /\ handleRemoveComparison(code)
    /\ selStreak' = NoStreak
    /\ scenario' = scenarioAfter("removeComparison", code)
    /\ UNCHANGED fixed

clearComparisons ==
    /\ handleClearComparisons
    /\ selStreak' = NoStreak
    /\ scenario' = scenarioAfter("clearComparisons", Null)
    /\ UNCHANGED fixed

setYear(y) ==
    /\ handleYearChange(y)
    /\ selStreak' = NoStreak
    /\ scenario' = scenarioAfter("setYear", y)
    /\ UNCHANGED fixed

setYearRange(range) ==
    /\ handleYearRangeChange(range)
    /\ selStreak' = NoStreak
    /\ scenario' = scenarioAfter("setYearRange", range)
    /\ UNCHANGED fixed

selectSubfield(name) ==
    /\ handleSubfieldSelect(name)
    /\ selStreak' = NoStreak
    /\ scenario' = scenarioAfter("selectSubfield", name)
    /\ UNCHANGED fixed

setViewMode(mode) ==
    /\ handleViewModeChange(mode)
    /\ selStreak' = NoStreak
    /\ scenario' = scenarioAfter("setViewMode", mode)
    /\ UNCHANGED fixed

hoverCountry(code) ==
    /\ handleCountryHover(code)
    /\ selStreak' = NoStreak
    /\ scenario' = scenarioAfter("hoverCountry", code)
    /\ UNCHANGED fixed

-----------------------------------------------------------------------------
(* Closures.  A handler made by useCallback reads the interaction state of *)
(* the render it was made in, and is made again only when one of its       *)
(* dependencies has changed; a view binds its listeners in an effect, to   *)
(* the handler of the render the effect last ran in, and the effect runs   *)
(* again only when one of its dependencies has changed.  A click and a     *)
(* slider input are discrete events: React 18 renders and runs the effects *)
(* of their updates before the browser delivers the next event.            *)

\* Variant: comparedCountries missing from the dependency list
countrySelectDepsShort(s) == <<s.selectedCountry>>

\* The dependency lists of handleCountrySelect, handleRemoveComparison and
\* handleSubfieldSelect
countrySelectDeps(s) == <<s.selectedCountry, s.comparedCountries>>
removeComparisonDeps(s) == <<s.selectedCountry>>
subfieldSelectDeps(s) == <<s.selectedSubfield>>

\* What each handler reads of the render it was made in
countrySelectClosure(s) ==
    [selectedCountry |-> s.selectedCountry, comparedCountries |-> s.comparedCountries]
removeComparisonClosure(s) == [selectedCountry |-> s.selectedCountry]
subfieldSelectClosure(s) == [selectedSubfield |-> s.selectedSubfield]

\* useCallback(fn, deps): the handler held so far if its dependencies are
\* what they were when it was made, else the one made in this render
useCallback(held, heldDeps, made, deps) == IF heldDeps = deps THEN held ELSE made

\* The handlers of Home's render of state s, given those of the render before
handlersOf(held, s) ==
    [countrySelect |->
        useCallback(held.countrySelect, countrySelectDeps(held.countrySelect),
                    countrySelectClosure(s), countrySelectDeps(s)),
     removeComparison |->
        useCallback(held.removeComparison, removeComparisonDeps(held.removeComparison),
                    removeComparisonClosure(s), removeComparisonDeps(s)),
     subfieldSelect |->
        useCallback(held.subfieldSelect, subfieldSelectDeps(held.subfieldSelect),
                    subfieldSelectClosure(s), subfieldSelectDeps(s))]

\* The handlers of Home's first render, and the listeners the views bind to
\* them when they are first drawn
firstHandlers ==
    [countrySelect |-> countrySelectClosure(Defaults),
     removeComparison |-> removeComparisonClosure(Defaults),
     subfieldSelect |-> subfieldSelectClosure(Defaults)]
listenersOf(handlers) ==
    [map |-> handlers.countrySelect, series |-> handlers.countrySelect,
     graph |-> handlers.subfieldSelect]

\* The dependency lists of the draw effects, without the datasets and the
\* dimensions, which no event changes: yearData and colorScale stand for
\* selectedYear, selectedSubfield and viewMode, timeSeriesData for
\* comparedCountries and selectedSubfield, filteredData for selectedCountry
\* and expandedField
mapDrawDeps(s, handlers) ==
    <<s.selectedYear, s.selectedSubfield, s.viewMode, s.selectedCountry,
      s.comparedCountries, handlers.countrySelect>>
seriesDrawDeps(s, handlers) ==
    <<s.comparedCountries, s.selectedSubfield, s.selectedCountry, s.yearRange,
      handlers.countrySelect>>
graphDrawDeps(s, handlers, expanded) ==
    <<s.selectedCountry, expanded, s.selectedSubfield, handlers.subfieldSelect>>

\* NodeLinkGraph's draw effect, run for state s: if the svg is rendered,
\* node.x, node.y, node.fx and node.fy are assigned on the main nodes of
\* filteredData.nodes (and node.x, node.y on the sub nodes shown), which are
\* the objects of nodeLinkData[selectedCountry] when that country has a
\* graph, else those of the default structure
placedAfterDraw(s) ==
    IF /\ Truthy(s.selectedCountry)
       /\ s.selectedCountry \in DOMAIN nodeLinkGraphs(nodeLinkData)
       /\ \E n \in Range(graphData(s).nodes) : n.type = "main"
    THEN placed \cup {s.selectedCountry}
    ELSE placed

\* The render that follows an event, and the effects of that render
Rerender ==
    /\ memo' = handlersOf(memo, State')
    /\ bound' =
         [map |-> IF mapDrawDeps(State', memo') = mapDrawDeps(State, memo)
                  THEN bound.map ELSE memo'.countrySelect,
          series |-> IF seriesDrawDeps(State', memo') = seriesDrawDeps(State, memo)
                     THEN bound.series ELSE memo'.countrySelect,
          graph |-> IF graphDrawDeps(State', memo', expandedField')
                       = graphDrawDeps(State, memo, expandedField)
                    THEN bound.graph ELSE memo'.subfieldSelect]
    /\ placed' = IF graphDrawDeps(State', memo', expandedField')
                      = graphDrawDeps(State, memo, expandedField)
                 THEN placed ELSE placedAfterDraw(State')

\* Variant: selecting a country drops the subfield
handleCountrySelectOfUnscoping(closure, countryCode) ==
    /\ selectedCountry' = selectedAfterSelect(closure.selectedCountry, countryCode)
    /\ comparedCountries' = comparedAfterSelect(closure.selectedCountry,
                                                closure.comparedCountries,
                                                comparedCountries, countryCode)
    /\ selectedSubfield' = IF countryCode = closure.selectedCountry
                           THEN selectedSubfield ELSE Null
    /\ UNCHANGED <<selectedYear, yearRange, hoveredCountry, viewMode>>

\* The handlers, called as the closure a listener holds
handleCountrySelectOf(closure, countryCode) ==
    /\ selectedCountry' = selectedAfterSelect(closure.selectedCountry, countryCode)
    /\ comparedCountries' = comparedAfterSelect(closure.selectedCountry,
                                                closure.comparedCountries,
                                                comparedCountries, countryCode)
    /\ UNCHANGED <<selectedYear, yearRange, selectedSubfield, hoveredCountry, viewMode>>

handleRemoveComparisonOf(closure, countryCode) ==
    /\ comparedCountries' = comparedAfterRemove(comparedCountries, countryCode)
    /\ selectedCountry' = selectedAfterRemove(closure.selectedCountry, selectedCountry,
                                              countryCode)
    /\ UNCHANGED <<selectedYear, yearRange, selectedSubfield, hoveredCountry, viewMode>>

handleSubfieldSelectOf(closure, subfield) ==
    /\ selectedSubfield' = subfieldAfterSelect(closure.selectedSubfield, subfield)
    /\ UNCHANGED <<selectedYear, yearRange, selectedCountry, comparedCountries,
                   hoveredCountry, viewMode>>

-----------------------------------------------------------------------------
(* The load *)

\* Variant: the views are rendered whenever the spinner is not
ScreenWithoutErrorTest ==
    IF loading THEN "loading" ELSE "ready"

\* What Home renders: the spinner, the error screen, or the views
Screen ==
    IF loading THEN "loading"
    ELSE IF Truthy(error) THEN "error"
    ELSE "ready"

\* err.message of the three failures loadData can catch
StatusMessage == "Failed to load one or more data files"
NetworkMessage == "Failed to fetch"
SyntaxMessage == "Unexpected token"

\* Variant: only the first response is tested
firstOk(res) == res["/ai_papers_country_year.json"] = "ok"

\* cyRes.ok && summaryRes.ok && subfieldRes.ok && nodeLinkRes.ok && geoRes.ok
allOk(res) == \A f \in Files : res[f] = "ok"

\* History is about the user's events; the load leaves it alone
Quiet == UNCHANGED <<interaction, history, track, expandedField, memo, bound, placed>>

\* Variant: a failed load starts the five fetches again
catchBlockRetrying(message) ==
    /\ error' = message
    /\ loading' = FALSE
    /\ loadPc' = "fetching"
    /\ responses' = [f \in Files |-> "pending"]
    /\ UNCHANGED <<datasets, bodies>>

\* Variant: setLoading(false) left out of the catch block
catchBlockStillLoading(message) ==
    /\ error' = message
    /\ loadPc' = "done"
    /\ UNCHANGED <<datasets, loading, responses, bodies>>

\* catch (err) { setError(err.message); setLoading(false); }
catchBlock(message) ==
    /\ error' = message
    /\ loading' = FALSE
    /\ loadPc' = "done"
    /\ UNCHANGED <<datasets, responses, bodies>>

\* A fetch settles: a response with a success status, a response with
\* another status, or a rejection
fetchSettles(f, outcome) ==
    /\ responses[f] = "pending"
    /\ responses' = [responses EXCEPT ![f] = outcome]
    /\ UNCHANGED <<datasets, loading, error, loadPc, bodies>>
    /\ Quiet

\* await Promise.all([fetch ...]) throws: a fetch was rejected
fetchFails ==
    /\ loadPc = "fetching"
    /\ \E f \in Files : responses[f] = "rejected"
    /\ catchBlock(NetworkMessage)
    /\ Quiet

\* await Promise.all([fetch ...]) returns: the status test, then the five json() calls
responsesArrive ==
    /\ loadPc = "fetching"
    /\ \A f \in Files : responses[f] \in {"ok", "notok"}
    /\ IF ~allOk(responses)
       THEN catchBlock(StatusMessage)
       ELSE /\ bodies' = [f \in Files |-> "pending"]
            /\ loadPc' = "parsing"
            /\ UNCHANGED <<datasets, loading, error, responses>>
    /\ Quiet

\* Variant: each body is stored as soon as it has parsed
bodySettlesStoring(f, outcome) ==
    /\ bodies[f] = "pending"
    /\ bodies' = [bodies EXCEPT ![f] = outcome]
    /\ countryYearData' = IF outcome = "parsed" /\ f = "/ai_papers_country_year.json"
                          THEN "full" ELSE countryYearData
    /\ countrySummary' = IF outcome = "parsed" /\ f = "/ai_papers_country_summary.json"
                         THEN "full" ELSE countrySummary
    /\ subfieldData' = IF outcome = "parsed" /\ f = "/ai_papers_country_year_subfield.json"
                       THEN "full" ELSE subfieldData
    /\ nodeLinkData' = IF outcome = "parsed" /\ f = "/node_link_by_country.json"
                       THEN "full" ELSE nodeLinkData
    /\ worldGeo' = IF outcome = "parsed" /\ f = "/world-50m.json" THEN "full" ELSE worldGeo
    /\ UNCHANGED <<loading, error, loadPc, responses>>
    /\ Quiet

\* A json() promise settles: the parsed body, or a rejection
bodySettles(f, outcome) ==
    /\ bodies[f] = "pending"
    /\ bodies' = [bodies EXCEPT ![f] = outcome]
    /\ UNCHANGED <<datasets, loading, error, loadPc, responses>>
    /\ Quiet

\* await Promise.all([json ...]) throws: a body did not parse
parseFails ==
    /\ loadPc = "parsing"
    /\ \E f \in Files : bodies[f] = "rejected"
    /\ catchBlock(SyntaxMessage)
    /\ Quiet

\* await Promise.all([json ...]) returns: the five setters and
\* setLoading(false), in one render; the views draw and bind their listeners
dataArrives ==
    /\ loadPc = "parsing"
    /\ \A f \in Files : bodies[f] = "parsed"
    /\ \E version \in Versions :
          /\ countryYearData' = version
          /\ countrySummary' = version
          /\ subfieldData' = version
          /\ nodeLinkData' = version
          /\ worldGeo' = version
    /\ loading' = FALSE
    /\ loadPc' = "done"
    /\ bound' = listenersOf(memo)
    /\ placed' = placedAfterDraw(State)
    /\ UNCHANGED <<error, responses, bodies>>
    /\ UNCHANGED <<interaction, history, track, expandedField, memo>>

-----------------------------------------------------------------------------
(* The user's events on the views.  None exists before the views are       *)
(* rendered.  Each is the listener, the handler it calls, and the render   *)
(* that follows.                                                           *)

\* The years the slider is moved to
SliderYears == {MinYear, DefaultYear, MaxYear}

\* What every view event leaves alone, and what the history records of it
viewEvent(op, arg) ==
    /\ selStreak' = NoStreak
    /\ scenario' = scenarioAfter(op, arg)
    /\ UNCHANGED <<track, datasets, load>>

\* Controls: the year slider, onYearChange(parseInt(e.target.value))
yearSlider(y) ==
    /\ Screen = "ready"
    /\ handleYearChange(y)
    /\ UNCHANGED expandedField
    /\ Rerender
    /\ viewEvent("yearSlider", y)

\* Controls: the Absolute and Growth buttons
viewModeButton(mode) ==
    /\ Screen = "ready"
    /\ handleViewModeChange(mode)
    /\ UNCHANGED expandedField
    /\ Rerender
    /\ viewEvent("viewModeButton", mode)

\* Controls: the x of a compared country's tag
removeTag(code) ==
    /\ Screen = "ready"
    /\ includes(comparedCountries, code)
    /\ handleRemoveComparisonOf(memo.removeComparison, code)
    /\ UNCHANGED expandedField
    /\ Rerender
    /\ viewEvent("removeTag", code)

\* Controls: "Clear all", shown while more than one country is compared
clearAll ==
    /\ Screen = "ready"
    /\ Len(comparedCountries) > 1
    /\ handleClearComparisons
    /\ UNCHANGED expandedField
    /\ Rerender
    /\ viewEvent("clearAll", Null)

\* Variant: the listener calls the handler without testing the code
mapClickUnguarded(feature) ==
    /\ Screen = "ready"
    /\ feature \in worldShapes(worldGeo)
    /\ handleCountrySelectOf(bound.map, getCountryCode(feature))
    /\ UNCHANGED expandedField
    /\ Rerender
    /\ viewEvent("mapClick", feature)

\* MapView: click on a country shape
mapClick(feature) ==
    /\ Screen = "ready"
    /\ feature \in worldShapes(worldGeo)
    /\ Truthy(getCountryCode(feature))
    /\ handleCountrySelectOf(bound.map, getCountryCode(feature))
    /\ UNCHANGED expandedField
    /\ Rerender
    /\ viewEvent("mapClick", feature)

\* MapView: the pointer enters a country shape
mapMouseEnter(feature) ==
    /\ Screen = "ready"
    /\ feature \in worldShapes(worldGeo)
    /\ handleCountryHover(getCountryCode(feature))
    /\ UNCHANGED expandedField
    /\ Rerender
    /\ viewEvent("mapMouseEnter", feature)

\* MapView: the pointer leaves a country shape
mapMouseLeave(feature) ==
    /\ Screen = "ready"
    /\ feature \in worldShapes(worldGeo)
    /\ handleCountryHover(Null)
    /\ UNCHANGED expandedField
    /\ Rerender
    /\ viewEvent("mapMouseLeave", feature)

\* TimeSeriesPanel: the series of the code has a dot drawn
dotShown(code) ==
    LET series == timeSeriesData(State)
    IN  \E i \in DOMAIN series : series[i].code = code /\ Len(series[i].values) > 0

\* TimeSeriesPanel: the legend has an entry for the code
legendShown(code) ==
    LET series == timeSeriesData(State)
    IN  \E i \in DOMAIN series : series[i].code = code

\* TimeSeriesPanel: click on a dot of a series
dotClick(code) ==
    /\ Screen = "ready"
    /\ dotShown(code)
    /\ handleCountrySelectOf(bound.series, code)
    /\ UNCHANGED expandedField
    /\ Rerender
    /\ viewEvent("dotClick", code)

\* TimeSeriesPanel: click on a legend entry
legendClick(code) ==
    /\ Screen = "ready"
    /\ legendShown(code)
    /\ handleCountrySelectOf(bound.series, code)
    /\ UNCHANGED expandedField
    /\ Rerender
    /\ viewEvent("legendClick", code)

\* The nodes the graph shows; without a selected country the graph is
\* replaced by a placeholder
shownNodes ==
    IF Truthy(selectedCountry)
    THEN Range(filteredData(State, expandedField).nodes)
    ELSE {}

\* NodeLinkGraph: click on a main field
mainNodeClick(id) ==
    /\ Screen = "ready"
    /\ \E n \in shownNodes : n.type = "main" /\ n.id = id
    /\ expandedField' = IF expandedField = id THEN Null ELSE id
    /\ UNCHANGED interaction
    /\ Rerender
    /\ viewEvent("mainNodeClick", id)

\* NodeLinkGraph: click on a subfield node
subNodeClick(id) ==
    /\ Screen = "ready"
    /\ \E n \in shownNodes : n.type = "sub" /\ n.id = id
    /\ handleSubfieldSelectOf(bound.graph, id)
    /\ UNCHANGED expandedField
    /\ Rerender
    /\ viewEvent("subNodeClick", id)

\* NodeLinkGraph: click on the svg beside the nodes
backgroundClick ==
    /\ Screen = "ready"
    /\ Truthy(selectedCountry)
    /\ expandedField' = Null
    /\ UNCHANGED interaction
    /\ Rerender
    /\ viewEvent("backgroundClick", Null)

-----------------------------------------------------------------------------
(* Specifications *)

\* Variant: the year slider starts at its maximum
MountLatestYear(t) ==
    /\ selectedYear = MaxYear
    /\ yearRange = <<MinYear, MaxYear>>
    /\ selectedCountry = Null
    /\ comparedCountries = << >>
    /\ selectedSubfield = Null
    /\ hoveredCountry = Null
    /\ viewMode = "absolute"
    /\ selStreak = NoStreak
    /\ scenario = 0
    /\ track = t

\* Home's useState initial values, and a run measured against script t
Mount(t) ==
    /\ selectedYear = DefaultYear
    /\ yearRange = <<MinYear, MaxYear>>
    /\ selectedCountry = Null
    /\ comparedCountries = << >>
    /\ selectedSubfield = Null
    /\ hoveredCountry = Null
    /\ viewMode = "absolute"
    /\ selStreak = NoStreak
    /\ scenario = 0
    /\ track = t

\* The shell when Home has mounted and its effect has started the five
\* fetches; the handlers are those of the first render
Mounted ==
    /\ countryYearData = EmptyArray
    /\ countrySummary = EmptyArray
    /\ subfieldData = EmptyArray
    /\ nodeLinkData = EmptyObject
    /\ worldGeo = Null
    /\ loading = TRUE
    /\ error = Null
    /\ loadPc = "fetching"
    /\ responses = [f \in Files |-> "pending"]
    /\ bodies = [f \in Files |-> "unread"]
    /\ expandedField = Null
    /\ memo = firstHandlers
    /\ bound = listenersOf(firstHandlers)
    /\ placed = {}

\* The shell once the files of a version have arrived and the views are drawn
Arrived(version) ==
    /\ countryYearData = version
    /\ countrySummary = version
    /\ subfieldData = version
    /\ nodeLinkData = version
    /\ worldGeo = version
    /\ loading = FALSE
    /\ error = Null
    /\ loadPc = "done"
    /\ responses = [f \in Files |-> "ok"]
    /\ bodies = [f \in Files |-> "parsed"]
    /\ expandedField = Null
    /\ memo = firstHandlers
    /\ bound = listenersOf(firstHandlers)
    /\ placed = {}

\* The coordinator taken apart from the shell: the operations neither read
\* nor write the shell, and its variables hold nothing
Apart ==
    /\ countryYearData = Null
    /\ countrySummary = Null
    /\ subfieldData = Null
    /\ nodeLinkData = Null
    /\ worldGeo = Null
    /\ loading = FALSE
    /\ error = Null
    /\ loadPc = "done"
    /\ responses = << >>
    /\ bodies = << >>
    /\ expandedField = Null
    /\ memo = << >>
    /\ bound = << >>
    /\ placed = {}

Init == Mount("countries") /\ Apart

\* Any operation, with payloads from the given sets
Coordinator(codes, years, ranges, names, hovers) ==
    \/ \E code \in codes : selectCountry(code)
    \/ \E code \in codes : removeComparison(code)
    \/ clearComparisons
    \/ \E y \in years : setYear(y)
    \/ \E range \in ranges : setYearRange(range)
    \/ \E name \in names : selectSubfield(name)
    \/ \E mode \in ViewModes : setViewMode(mode)
    \/ \E code \in hovers : hoverCountry(code)

\* The country operations over every country; the operations on the other
\* fields write fields no country operation reads, and get one payload each.
Next ==
    Coordinator(Countries, {MinYear}, {<<MaxYear, MinYear>>}, {SubfieldNames[1]},
                {Null, CountryCodes[1]})

Spec == Init /\ [][Next]_vars

\* The three operations that write selectedCountry and comparedCountries,
\* alone: the state they read and write is theirs only.
NextCountries ==
    \/ \E code \in Countries : selectCountry(code)
    \/ \E code \in Countries : removeComparison(code)
    \/ clearComparisons

SpecCountries == Init /\ [][NextCountries]_vars

\* The same operations, measured against the run that fills the list
InitQueue == Mount("queue") /\ Apart

SpecQueue == InitQueue /\ [][NextCountries]_vars

\* The same operations with the files loaded, so that the panel draws a
\* series for each compared country
InitColours == Mount("queue") /\ Arrived("full")

SpecColours == InitColours /\ [][NextCountries]_vars

\* The year operations over every year payload, in and out of the slider's
\* range, with two countries.
TwoCountries == {CountryCodes[1], CountryCodes[2]}

NextYears ==
    Coordinator(TwoCountries, YearInputs, RangeInputs, {SubfieldNames[1]},
                {Null, CountryCodes[1]})

SpecYears == Init /\ [][NextYears]_vars

\* The operations on the fields beside the country ones: every subfield
\* payload, a name and a code that no dataset holds, and for each other
\* field its default and one other value; two countries.
FieldCodes == TwoCountries \cup {UnknownCountry}
FieldNames == Subfields \cup {UnknownSubfield}
FieldYears == {MinYear, DefaultYear}
FieldRanges == {<<MaxYear, MinYear>>, <<MinYear, MaxYear>>}
FieldHovers == {Null, CountryCodes[1]}

NextFields == Coordinator(FieldCodes, FieldYears, FieldRanges, FieldNames, FieldHovers)

\* The files have arrived and the views are drawn
InitFields == Mount("fields") /\ Arrived("full")

SpecFields == InitFields /\ [][NextFields]_vars

\* The application from its mount: the load, then the user's events on the
\* views
NextApp ==
    \/ \E f \in Files, outcome \in {"ok", "notok", "rejected"} : fetchSettles(f, outcome)
    \/ fetchFails
    \/ responsesArrive
    \/ \E f \in Files, outcome \in {"parsed", "rejected"} : bodySettles(f, outcome)
    \/ parseFails
    \/ dataArrives
    \/ \E y \in SliderYears : yearSlider(y)
    \/ \E mode \in ViewModes : viewModeButton(mode)
    \/ \E code \in Range(comparedCountries) : removeTag(code)
    \/ clearAll
    \/ \E feature \in Shapes : mapClick(feature)
    \/ \E feature \in Shapes : mapMouseEnter(feature)
    \/ \E feature \in Shapes : mapMouseLeave(feature)
    \/ \E code \in Range(comparedCountries) : dotClick(code)
    \/ \E code \in Range(comparedCountries) : legendClick(code)
    \/ \E id \in Range(MainFields) : mainNodeClick(id)
    \/ \E n \in shownNodes : subNodeClick(n.id)
    \/ backgroundClick

InitApp == Mount("views") /\ Mounted

SpecApp == InitApp /\ [][NextApp]_vars

\* The application when every fetch() and json() promise settles, and the
\* continuation of an await runs once the promise it waits for has settled
LoadIsFair ==
    /\ \A f \in Files :
          /\ WF_vars(\E outcome \in {"ok", "notok", "rejected"} : fetchSettles(f, outcome))
          /\ WF_vars(\E outcome \in {"parsed", "rejected"} : bodySettles(f, outcome))
    /\ WF_vars(fetchFails)
    /\ WF_vars(responsesArrive)
    /\ WF_vars(parseFails)
    /\ WF_vars(dataArrives)

SpecAppFair == SpecApp /\ LoadIsFair

-----------------------------------------------------------------------------
(* Properties *)

NoRepeat(seq) == \A i, j \in 1..Len(seq) : i # j => seq[i] # seq[j]

\* old without its entry x, the others in their order
WithoutEntry(old, x) ==
    IF x \in Range(old)
    THEN LET i == CHOOSE k \in 1..Len(old) : old[k] = x
         IN  SubSeq(old, 1, i - 1) \o SubSeq(old, i + 1, Len(old))
    ELSE old

\* C1: in every state reachable from the defaults by any sequence of the
\* eight operations, comparedCountries has at most 5 entries.
C1_AtMostFive == Len(comparedCountries) <= ComparedLimit

\* The list is full and a sixth country has just been selected.
C1_Witness == scenario = 12 /\ Len(comparedCountries) = ComparedLimit

\* C2: in every reachable state, a selected country is one of the compared
\* countries (after an evicting selectCountry, a removeComparison and a
\* clearComparisons too).
C2_SelectedIsCompared ==
    selectedCountry # Null => selectedCountry \in Range(comparedCountries)

\* The selection that evicted the oldest entry: the selected country is the
\* newest entry of a full list.
C2_Witness ==
    /\ scenario = 12
    /\ selectedCountry = "GB"
    /\ comparedCountries[Len(comparedCountries)] = selectedCountry

\* C3: in every reachable state no country code occurs twice in
\* comparedCountries.
C3_NoDuplicates == NoRepeat(comparedCountries)

\* A country already in the full list has been selected again.
C3_Witness ==
    /\ scenario = 14
    /\ selectedCountry = "US"
    /\ Cardinality(Range(comparedCountries)) = ComparedLimit

\* C4: selectCountry(F) on a list of 5 distinct codes without F drops the
\* oldest-added entry, keeps the order of the other four, puts F last, and
\* makes F the selected country.
C4_EvictsOldest ==
    [][\A F \in Countries :
         ( /\ Len(comparedCountries) = ComparedLimit
           /\ NoRepeat(comparedCountries)
           /\ F \notin Range(comparedCountries)
           /\ selectCountry(F) )
         => /\ comparedCountries' = Tail(comparedCountries) \o <<F>>
            /\ selectedCountry' = F]_vars

\* [DE,US,CN,JP,IN] has taken GB: DE, the first added, is gone.
C4_Witness ==
    /\ scenario = 12
    /\ comparedCountries = <<"US", "CN", "JP", "IN", "GB">>
    /\ selectedCountry = "GB"

\* C5: selectCountry(x) applied twice in a row, starting where x is not the
\* selected country, ends with no country selected and x still compared.
C5_TwiceDeselects ==
    selStreak.n = 2 =>
        /\ selectedCountry = Null
        /\ selStreak.code \in Range(comparedCountries)

\* GB selected twice in a row; the first call evicted DE.
C5_Witness == scenario = 13 /\ selStreak = [code |-> "GB", n |-> 2]

\* C6 as stated: from the defaults, selectCountry("US"), selectCountry("CN"),
\* selectCountry("US") gives US/[US], then CN/[US,CN], then none/[US,CN].
C6_ScenarioAsStated ==
    /\ scenario = 1 => selectedCountry = "US" /\ comparedCountries = <<"US">>
    /\ scenario = 2 => selectedCountry = "CN" /\ comparedCountries = <<"US", "CN">>
    /\ scenario = 3 => selectedCountry = Null /\ comparedCountries = <<"US", "CN">>

\* C6, amended: from the defaults, selectCountry("US"), selectCountry("CN"),
\* selectCountry("US") gives US/[US], then CN/[US,CN], then US/[US,CN]: the
\* third call finds CN selected, not US, so it selects US; the list is unchanged.
C6_Scenario ==
    /\ scenario = 1 => selectedCountry = "US" /\ comparedCountries = <<"US">>
    /\ scenario = 2 => selectedCountry = "CN" /\ comparedCountries = <<"US", "CN">>
    /\ scenario = 3 => selectedCountry = "US" /\ comparedCountries = <<"US", "CN">>

\* The third event of the scenario has been applied.
C6_Witness == scenario = 3

\* C7: removeComparison(x) takes x out of comparedCountries and keeps the
\* order of the rest; it clears selectedCountry if that was x and leaves it
\* alone otherwise.
C7_RemoveComparison ==
    [][\A x \in Countries :
         removeComparison(x) =>
            /\ x \notin Range(comparedCountries')
            /\ comparedCountries' = WithoutEntry(comparedCountries, x)
            /\ (selectedCountry = x => selectedCountry' = Null)
            /\ (selectedCountry # x => selectedCountry' = selectedCountry)]_vars

\* CN, selected and second of [US,CN], has been removed.
C7_Witness ==
    /\ scenario = 5
    /\ selectedCountry = Null
    /\ comparedCountries = <<"US">>

\* C8: clearComparisons empties comparedCountries, clears selectedCountry, and
\* leaves hoveredCountry, selectedYear, yearRange, selectedSubfield and
\* viewMode as they were.
C8_ClearComparisons ==
    [][clearComparisons =>
         /\ comparedCountries' = << >>
         /\ selectedCountry' = Null
         /\ UNCHANGED <<hoveredCountry, selectedYear, yearRange, selectedSubfield,
                        viewMode>>]_vars

\* Cleared from a full list with a selection, every other field off its default.
C8_Witness ==
    /\ scenario = 20
    /\ comparedCountries = << >>
    /\ hoveredCountry = "US"
    /\ selectedYear = MinYear
    /\ yearRange = <<MaxYear, MinYear>>
    /\ selectedSubfield = SubfieldNames[1]
    /\ viewMode = "growth"

\* The year a clamp into the slider's range would give
NearestBound(y) == IF y < MinYear THEN MinYear ELSE IF y > MaxYear THEN MaxYear ELSE y

C11_SubfieldToggle ==
    [][\A s \in FieldNames :
         selectSubfield(s) =>
            /\ (selectedSubfield = Null =>
                    /\ selectedSubfield' = s
                    /\ applyEvent(State', Event("selectSubfield", s)).selectedSubfield = Null)
            /\ (selectedSubfield = s => selectedSubfield' = Null)
            /\ (selectedSubfield # s => selectedSubfield' = s)]_vars

\* The first subfield selected twice from none, selected again, and then
\* replaced by the second.
C11_Witness ==
    /\ track = "fields"
    /\ scenario = 4
    /\ selectedSubfield = SubfieldNames[2]

\* C12: selectSubfield(name) changes only selectedSubfield: selectedCountry,
\* comparedCountries, selectedYear, yearRange, hoveredCountry and viewMode
\* are the same before and after.
C12_SubfieldFrame ==
    [][\A name \in FieldNames :
         selectSubfield(name) =>
            UNCHANGED <<selectedCountry, comparedCountries, selectedYear, yearRange,
                        hoveredCountry, viewMode>>]_vars

\* A subfield chosen while every other field is off its default.
C12_Witness ==
    /\ track = "fields"
    /\ scenario = 11
    /\ selectedSubfield = SubfieldNames[1]
    /\ selectedCountry = "CN"
    /\ comparedCountries = <<"US", "CN">>
    /\ selectedYear = MinYear
    /\ yearRange = <<MaxYear, MinYear>>
    /\ hoveredCountry = "US"
    /\ viewMode = "growth"

\* A sequence of operations that takes state s back to the defaults
Homeward(s) ==
    << Event("clearComparisons", Null),
       Event("setYear", DefaultYear),
       Event("setYearRange", <<MinYear, MaxYear>>) >>
    \o (IF s.selectedSubfield = Null THEN << >>
        ELSE << Event("selectSubfield", s.selectedSubfield) >>)
    \o << Event("hoverCountry", Null),
          Event("setViewMode", "absolute") >>

\* C19: no reachable interaction state is terminal or a trap: from every
\* reachable state a sequence of coordinator operations leads back to the
\* defaults, from where every reachable state is reached; so every reachable
\* state is reached from every other.
C19_EveryStateReturns == applyAll(State, Homeward(State)) = Defaults

\* Every field moved off its default, and then the run back to the defaults
\* taken operation by operation.
C19_Witness ==
    /\ track = "fields"
    /\ scenario = 17
    /\ State = Defaults

\* A fetch that was rejected or answered with a non-success status, or a
\* body that did not parse
LoadFailure ==
    \E f \in Files : responses[f] \in {"notok", "rejected"} \/ bodies[f] = "rejected"

\* C13: the views are rendered only if all five fetches returned a success
\* status and all five bodies parsed; after any failure the views are never
\* rendered, and when loadData has run to its end the error screen is shown.
C13_ReadyOnlyIfAllLoaded ==
    /\ Screen = "ready" => \A f \in Files : responses[f] = "ok" /\ bodies[f] = "parsed"
    /\ LoadFailure => Screen # "ready"
    /\ (LoadFailure /\ loadPc = "done") => Screen = "error"

\* Four files answered with success and one with another status: the error
\* screen.
C13_Witness ==
    /\ Screen = "error"
    /\ error = StatusMessage
    /\ Cardinality({f \in Files : responses[f] = "ok"}) = Cardinality(Files) - 1
    /\ \E f \in Files : responses[f] = "notok"

\* C14: once the error is set the error screen stays: no step clears or
\* changes the error, brings back the spinner or the views, makes a settled
\* fetch pending again, moves loadData from its end, stores a dataset or
\* changes the interaction state.
C14_ErrorIsTerminal ==
    [][Truthy(error) =>
         /\ loadPc = "done"
         /\ Screen = "error"
         /\ error' = error
         /\ Screen' = "error"
         /\ loadPc' = "done"
         /\ \A f \in Files : responses'[f] = "pending" => responses[f] = "pending"
         /\ UNCHANGED <<datasets, interaction>>]_vars

\* A fetch was rejected, the error screen is shown, and the other four
\* fetches have succeeded.
C14_Witness ==
    /\ Screen = "error"
    /\ error = NetworkMessage
    /\ Cardinality({f \in Files : responses[f] = "ok"}) = Cardinality(Files) - 1
    /\ \E f \in Files : responses[f] = "rejected"

\* C15: while viewMode = growth, two states that differ only in selectedYear
\* give every country shape the same map colour, and a change of the year
\* slider leaves the colour of every shape as it was.
C15_GrowthIgnoresYear ==
    /\ []((Screen = "ready" /\ viewMode = "growth") =>
            \A y \in SliderYears, feature \in Shapes :
               mapFill([State EXCEPT !.selectedYear = y], feature) = mapFill(State, feature))
    /\ [][\A y \in SliderYears :
            (viewMode = "growth" /\ yearSlider(y)) =>
               \A feature \in Shapes : mapFill(State', feature) = mapFill(State, feature)]_vars

\* Growth mode chosen, then the year moved from 2024 to 2010.
C15_Witness ==
    /\ track = "views"
    /\ scenario = 5
    /\ viewMode = "growth"
    /\ selectedYear = MinYear

\* The papers of the record of a country and year, over all fields and for
\* one subfield; 0 without a record
TotalCount(code, year) ==
    LET recs == countryYearRecords(countryYearData)
        hits == {i \in DOMAIN recs : recs[i].country_code = code /\ recs[i].year = year}
    IN  IF hits = {} THEN 0 ELSE recs[CHOOSE i \in hits : TRUE].papers
SubfieldCount(code, year, subfield) ==
    LET recs == subfieldRecords(subfieldData)
        hits == {i \in DOMAIN recs : /\ recs[i].country_code = code
                                     /\ recs[i].year = year
                                     /\ recs[i].subfield = subfield}
    IN  IF hits = {} THEN 0 ELSE recs[CHOOSE i \in hits : TRUE].papers

\* The codes of the shapes and of the records
ShapeCodes == {getCountryCode(feature) : feature \in Shapes}
RecordCodes == {countryYearRecords(countryYearData)[i].country_code :
                   i \in DOMAIN countryYearRecords(countryYearData)}

Largest(values) == CHOOSE v \in values : \A w \in values : v >= w
Smallest(values) == CHOOSE v \in values : \A w \in values : v <= w

\* The colour of a paper count on the log scale from 1 to the largest count
CountColor(count, counts) ==
    IF count = 0 THEN NoDataColor
    ELSE [palette |-> "PAPER_COUNT_COLORS", domain |-> <<1, Largest(counts \cup {1})>>,
          value |-> count]

\* The colour of a country by its all-field papers of the year, by its papers
\* in one subfield, and by its growth ratio
TotalFill(code) ==
    CountColor(TotalCount(code, selectedYear),
               {TotalCount(c, selectedYear) : c \in RecordCodes})
ScopedFill(code) ==
    CountColor(SubfieldCount(code, selectedYear, selectedSubfield),
               {SubfieldCount(c, selectedYear, selectedSubfield) : c \in RecordCodes})
GrowthFill(code) ==
    LET summary == countrySummaryRecords(countrySummary)
        ratios == {summary[i].growth_ratio : i \in DOMAIN summary} \ {0}
        own == {summary[i].growth_ratio : i \in {j \in DOMAIN summary :
                                                   summary[j].country_code = code}} \ {0}
    IN  IF own = {} THEN NoDataColor
        ELSE [palette |-> "GROWTH_COLORS", domain |-> <<Smallest(ratios), Largest(ratios)>>,
              value |-> CHOOSE v \in own : TRUE]

\* The (year, papers) pairs a series shows, and those of the all-field and
\* of the subfield records of its country
ShownValues(series) == {<<series.values[k].year, series.values[k].papers>> :
                           k \in DOMAIN series.values}
TotalValues(code) ==
    {<<y, TotalCount(code, y)>> :
        y \in {yy \in Range(DataYears) :
                 \E i \in DOMAIN countryYearRecords(countryYearData) :
                    /\ countryYearRecords(countryYearData)[i].country_code = code
                    /\ countryYearRecords(countryYearData)[i].year = yy}}
ScopedValues(code) ==
    {<<y, SubfieldCount(code, y, selectedSubfield)>> :
        y \in {yy \in Range(DataYears) :
                 \E i \in DOMAIN subfieldRecords(subfieldData) :
                    /\ subfieldRecords(subfieldData)[i].country_code = code
                    /\ subfieldRecords(subfieldData)[i].year = yy
                    /\ subfieldRecords(subfieldData)[i].subfield = selectedSubfield}}

C17_LastHoverWins ==
    [][/\ \A feature \in Shapes :
            /\ mapMouseEnter(feature) =>
                  /\ hoveredCountry' = getCountryCode(feature)
                  /\ UNCHANGED <<selectedYear, yearRange, selectedCountry,
                                 comparedCountries, selectedSubfield, viewMode>>
            /\ mapMouseLeave(feature) =>
                  /\ hoveredCountry' = Null
                  /\ UNCHANGED <<selectedYear, yearRange, selectedCountry,
                                 comparedCountries, selectedSubfield, viewMode>>
       /\ hoveredCountry' # hoveredCountry =>
             \E feature \in Shapes : mapMouseEnter(feature) \/ mapMouseLeave(feature)]_vars

\* The pointer entered US, entered CN before it left US, then left US: no
\* country is hovered.
C17_Witness ==
    /\ track = "views"
    /\ scenario = 3
    /\ hoveredCountry = Null

\* The ids of the subfield nodes of the graphs
SubNodeIds ==
    UNION {{n.id : n \in {m \in Range(NodeLinkFile[c].nodes) : m.type = "sub"}} :
              c \in DOMAIN NodeLinkFile}

\* C18: every handler a listener holds reads the selectedCountry,
\* comparedCountries and selectedSubfield the previous event left, and every
\* event on a view gives the state its operation gives when applied to the
\* state before the event; so a sequence of events gives the state of the
\* operations applied one by one.
C18_NoStaleSnapshot ==
    /\ [](Screen = "ready" =>
            /\ memo.countrySelect = countrySelectClosure(State)
            /\ memo.removeComparison = removeComparisonClosure(State)
            /\ memo.subfieldSelect = subfieldSelectClosure(State)
            /\ bound.map = countrySelectClosure(State)
            /\ bound.series = countrySelectClosure(State)
            /\ bound.graph = subfieldSelectClosure(State))
    /\ [][ /\ \A feature \in Shapes :
                /\ mapClick(feature) =>
                      State' = applyEvent(State, Event("selectCountry", getCountryCode(feature)))
                /\ mapMouseEnter(feature) =>
                      State' = applyEvent(State, Event("hoverCountry", getCountryCode(feature)))
                /\ mapMouseLeave(feature) =>
                      State' = applyEvent(State, Event("hoverCountry", Null))
           /\ \A code \in Range(comparedCountries) :
                /\ (dotClick(code) \/ legendClick(code)) =>
                      State' = applyEvent(State, Event("selectCountry", code))
                /\ removeTag(code) =>
                      State' = applyEvent(State, Event("removeComparison", code))
           /\ clearAll => State' = applyEvent(State, Event("clearComparisons", Null))
           /\ \A id \in SubNodeIds :
                subNodeClick(id) => State' = applyEvent(State, Event("selectSubfield", id))
           /\ \A y \in SliderYears :
                yearSlider(y) => State' = applyEvent(State, Event("setYear", y))
           /\ \A mode \in ViewModes :
                viewModeButton(mode) => State' = applyEvent(State, Event("setViewMode", mode))]_vars

\* US and CN compared, US removed by its tag, US clicked on the map again:
\* US is appended behind CN and selected.
C18_Witness ==
    /\ track = "views"
    /\ scenario = 13
    /\ selectedCountry = "US"
    /\ comparedCountries = <<"CN", "US">>

\* The codes of a payload set without a record, and the names outside the
\* enumerated subfields
Unlisted(codes) == codes \ {DataCountries[i] : i \in DOMAIN DataCountries}
Unnamed(names) == names \ Range(SubfieldNames)

C21_CreatedWithDefaults ==
    /\ selectedYear = DefaultYear
    /\ yearRange = <<MinYear, MaxYear>>
    /\ selectedCountry = Null
    /\ comparedCountries = << >>
    /\ selectedSubfield = Null
    /\ hoveredCountry = Null
    /\ viewMode = "absolute"
    /\ [][(Screen # "ready" /\ Screen' = "ready") =>
            /\ selectedYear' = DefaultYear
            /\ yearRange' = <<MinYear, MaxYear>>
            /\ selectedCountry' = Null
            /\ comparedCountries' = << >>
            /\ selectedSubfield' = Null
            /\ hoveredCountry' = Null
            /\ viewMode' = "absolute"]_vars

\* The load has completed and no event has been handled yet.
C21_Witness ==
    /\ Screen = "ready"
    /\ countryYearData = "full"
    /\ scenario = 0
    /\ selectedYear = DefaultYear
    /\ viewMode = "absolute"
    /\ comparedCountries = << >>

\* C22: viewMode is absolute or growth in every reachable state, and a change
\* of the view mode sets viewMode to the mode chosen and leaves selectedYear,
\* yearRange, selectedCountry, comparedCountries, selectedSubfield and
\* hoveredCountry as they were.
C22_ViewModeAlone ==
    /\ [](viewMode \in {"absolute", "growth"})
    /\ [][\A mode \in ViewModes :
            viewModeButton(mode) =>
               /\ viewMode' = mode
               /\ UNCHANGED <<selectedYear, yearRange, selectedCountry,
                              comparedCountries, selectedSubfield, hoveredCountry>>]_vars

\* Growth chosen with the Growth button, from the defaults.
C22_Witness ==
    /\ track = "views"
    /\ scenario = 4
    /\ viewMode = "growth"
    /\ selectedYear = DefaultYear

\* C23: selectCountry(x) with x already in comparedCountries leaves
\* comparedCountries as it is, in content and in order; selectCountry(x) with
\* x neither compared nor selected appends x at the end and, if the list was
\* full, drops its first entry, which is the one added first, whichever
\* entry was selected last.
C23_EvictsFirstAdded ==
    [][\A x \in Countries :
          selectCountry(x) =>
             /\ includes(comparedCountries, x) => comparedCountries' = comparedCountries
             /\ (~includes(comparedCountries, x) /\ x # selectedCountry) =>
                   comparedCountries' =
                      Append(IF Len(comparedCountries) < ComparedLimit
                             THEN comparedCountries ELSE Tail(comparedCountries), x)]_vars

\* US, CN, JP, IN, GB compared, US selected again, then DE selected: US, the
\* entry added first and selected last, is the one dropped.
C23_Witness ==
    /\ track = "queue"
    /\ scenario = 7
    /\ selectedCountry = "DE"
    /\ comparedCountries = <<"CN", "JP", "IN", "GB", "DE">>

\* C24 as stated: the static datasets are written when the load completes
\* and no step after it modifies them, neither a coordinator transition nor
\* the render and the effects of a view.
C24_DatasetsWrittenOnce ==
    [][Screen = "ready" => UNCHANGED <<datasets, placed>>]_vars

\* C25: in every state with the views rendered, each compared country has a
\* tag in Controls, and the colour of its tag is the colour of its line and
\* legend entry in the time-series panel: the palette colour at the
\* country's index in comparedCountries.
C25_TagColourIsLineColour ==
    Screen = "ready" =>
       /\ Len(comparedCountryNames(State)) = Len(comparedCountries)
       /\ \A i \in DOMAIN timeSeriesData(State) :
             /\ comparedCountryNames(State)[i].code = comparedCountries[i]
             /\ timeSeriesData(State)[i].code = comparedCountries[i]
             /\ comparedCountryNames(State)[i].color = timeSeriesData(State)[i].color
             /\ timeSeriesData(State)[i].color
                   = COUNTRY_COLORS[((i - 1) % Len(COUNTRY_COLORS)) + 1]

\* US and CN compared, in this order.
C25_Witness ==
    /\ track = "views"
    /\ scenario = 11
    /\ Screen = "ready"
    /\ comparedCountries = <<"US", "CN">>
    /\ Len(timeSeriesData(State)) = Len(comparedCountries)

\* C26: at most one main field is expanded at a time: a click on a main field
\* that is not the expanded one makes it the expanded field, a click on the
\* expanded field leaves none expanded, the subfield nodes shown are those
\* of the expanded field only, and a step that changes the expanded field
\* changes no field of the interaction state.
C26_OneFieldExpanded ==
    /\ [](expandedField \in {Null} \cup Range(MainFields))
    /\ [](Screen = "ready" =>
            \A n \in shownNodes :
               n.type = "sub" => Truthy(expandedField) /\ n.parent = expandedField)
    /\ [][ /\ \A id \in Range(MainFields) :
                mainNodeClick(id) =>
                   /\ expandedField' = IF expandedField = id THEN Null ELSE id
                   /\ UNCHANGED interaction
           /\ expandedField' # expandedField => UNCHANGED interaction]_vars

\* US selected and Theory expanded: its subfield node is shown, that of
\* Computer Vision is not.
C26_Witness ==
    /\ track = "views"
    /\ scenario = 7
    /\ expandedField = MainFields[4]
    /\ \E n \in shownNodes : n.type = "sub" /\ n.parent = MainFields[4]

\* The views are rendered, no country is selected and a subfield is set
SubfieldWithoutCountry ==
    Screen = "ready" /\ selectedCountry = Null /\ Truthy(selectedSubfield)

\* A click on the subfield node id happens only with a country selected
\* whose graph has that node under the expanded field
OnlyUnderExpandedField ==
    \A id \in SubNodeIds :
       subNodeClick(id) =>
          /\ Truthy(selectedCountry)
          /\ selectedCountry \in DOMAIN nodeLinkGraphs(nodeLinkData)
          /\ \E n \in Range(nodeLinkGraphs(nodeLinkData)[selectedCountry].nodes) :
                n.id = id /\ n.type = "sub" /\ n.parent = expandedField

SomeViewEvent ==
    \/ \E y \in SliderYears : ENABLED yearSlider(y)
    \/ \E mode \in ViewModes : ENABLED viewModeButton(mode)
    \/ \E code \in Countries : ENABLED removeTag(code)
    \/ ENABLED clearAll
    \/ \E feature \in Shapes :
          ENABLED mapClick(feature) \/ ENABLED mapMouseEnter(feature)
             \/ ENABLED mapMouseLeave(feature)
    \/ \E code \in Countries : ENABLED dotClick(code) \/ ENABLED legendClick(code)
    \/ \E id \in Range(MainFields) : ENABLED mainNodeClick(id)
    \/ \E id \in SubNodeIds : ENABLED subNodeClick(id)
    \/ ENABLED backgroundClick

\* C28: while loading is true and while the error is set, no event on a view
\* can happen and the interaction state has its initial values; no step
\* taken while loading or with the error set changes the interaction state,
\* and the error, once set, stays.
C28_NoEventBeforeReady ==
    /\ []((loading \/ Truthy(error)) =>
            /\ ~SomeViewEvent
            /\ selectedYear = DefaultYear
            /\ yearRange = <<MinYear, MaxYear>>
            /\ selectedCountry = Null
            /\ comparedCountries = << >>
            /\ selectedSubfield = Null
            /\ hoveredCountry = Null
            /\ viewMode = "absolute")
    /\ [][(loading \/ Truthy(error)) => UNCHANGED interaction]_vars
    /\ [][Truthy(error) => Truthy(error')]_vars

\* A body did not parse: the error screen, with the interaction state as it
\* was created.
C28_Witness ==
    /\ Screen = "error"
    /\ error = SyntaxMessage
    /\ ~SomeViewEvent
    /\ selectedYear = DefaultYear
    /\ comparedCountries = << >>

\* The datasets as useState created them
NothingStored ==
    /\ countryYearData = EmptyArray
    /\ countrySummary = EmptyArray
    /\ subfieldData = EmptyArray
    /\ nodeLinkData = EmptyObject
    /\ worldGeo = Null

\* C29: in every state either no dataset is stored or all five are, and they
\* are stored only with all five responses successful and all five bodies
\* parsed; while the error is set every dataset has its initial value.
C29_AllOrNothing ==
    /\ \/ NothingStored
       \/ /\ \A f \in Files : responses[f] = "ok" /\ bodies[f] = "parsed"
          /\ {countryYearData, countrySummary, subfieldData, nodeLinkData, worldGeo}
                \cap {EmptyArray, EmptyObject, Null} = {}
    /\ Truthy(error) => NothingStored

\* Four bodies have parsed and the fifth has not: the error screen, and no
\* dataset stored.
C29_Witness ==
    /\ Screen = "error"
    /\ Cardinality({f \in Files : bodies[f] = "parsed"}) = Cardinality(Files) - 1
    /\ \E f \in Files : bodies[f] = "rejected"
    /\ NothingStored

\* C30: if every fetch and every body read settles, loading becomes false
\* and the application stays on the views or stays on the error screen;
\* loading, once false, is never true again, and the views are never
\* rendered after the error screen nor the error screen after the views.
C30_LoadEnds ==
    /\ <>(~loading)
    /\ (<>[](Screen = "ready")) \/ (<>[](Screen = "error"))
    /\ [][~loading => ~loading']_vars
    /\ [][Screen = "ready" => Screen' = "ready"]_vars
    /\ [][Screen = "error" => Screen' = "error"]_vars

\* loadData has run to its end with the views rendered.
C30_Witness ==
    /\ ~loading
    /\ loadPc = "done"
    /\ Screen = "ready"
    /\ \A f \in Files : bodies[f] = "parsed"

\* C31: a dot or a legend entry can be clicked only for a code that is in
\* comparedCountries, and the click sets selectedCountry to that code, or
\* to none if the code was the selected one, and changes neither
\* comparedCountries nor any other field.
C31_SeriesClickKeepsList ==
    /\ [](Screen = "ready" =>
            \A code \in Countries :
               (dotShown(code) \/ legendShown(code)) =>
                  includes(comparedCountries, code))
    /\ [][\A code \in Range(comparedCountries) :
            (dotClick(code) \/ legendClick(code)) =>
               /\ comparedCountries' = comparedCountries
               /\ selectedCountry' = IF code = selectedCountry THEN Null ELSE code
               /\ UNCHANGED <<selectedYear, yearRange, selectedSubfield,
                              hoveredCountry, viewMode>>]_vars

\* CN and US compared and US selected; CN selected by its legend entry, then
\* deselected by one of its dots.
C31_Witness ==
    /\ track = "views"
    /\ scenario = 15
    /\ selectedCountry = Null
    /\ comparedCountries = <<"CN", "US">>

\* C32: a map shape whose country code cannot be resolved has no click that
\* reaches a handler, so a click on it leaves every field as it is; every
\* map click that changes the state carries a resolved code, and none is
\* never an entry of comparedCountries.
C32_UnresolvedShapeIsInert ==
    /\ [](\A feature \in Shapes :
            ~Truthy(getCountryCode(feature)) => ~ENABLED mapClick(feature))
    /\ [](~includes(comparedCountries, Null))
    /\ [][\A feature \in Shapes :
            mapClick(feature) =>
               /\ Truthy(getCountryCode(feature))
               /\ includes(comparedCountries', getCountryCode(feature))
                     \/ selectedCountry' = Null]_vars

\* The map is drawn with a shape that has no code next to shapes that have
\* one, a country is selected and compared, and only the shapes with a code
\* can be clicked.
C32_Witness ==
    /\ Screen = "ready"
    /\ ShapeUnresolved \in worldShapes(worldGeo)
    /\ getCountryCode(ShapeUnresolved) = Null
    /\ selectedCountry = "CN"
    /\ comparedCountries = <<"US", "CN">>
    /\ ~ENABLED mapClick(ShapeUnresolved)
    /\ ENABLED mapClick(ShapeOfUS)

\* C33: the series of the time-series panel and the tags of the controls
\* take the palette entry at their index, the list never has more entries
\* than the limit of five, which is below the six entries of the palette,
\* and so no two compared countries share a colour.
C33_ColoursDiffer ==
    LET series == timeSeriesData(State)
        tags == comparedCountryNames(State)
    IN  /\ Len(comparedCountries) <= ComparedLimit
        /\ Len(series) <= Len(COUNTRY_COLORS)
        /\ Len(tags) <= Len(ControlsCOUNTRY_COLORS)
        /\ \A i, j \in DOMAIN series :
              i # j => /\ series[i].code # series[j].code
                       /\ series[i].color # series[j].color
        /\ \A i, j \in DOMAIN tags :
              i # j => /\ tags[i].code # tags[j].code
                       /\ tags[i].color # tags[j].color

\* Five countries are compared, and the panel draws five series in five
\* colours.
C33_Witness ==
    /\ track = "queue"
    /\ scenario = 5
    /\ Len(comparedCountries) = ComparedLimit
    /\ Len(timeSeriesData(State)) = ComparedLimit
    /\ Cardinality({timeSeriesData(State)[i].color :
                        i \in DOMAIN timeSeriesData(State)}) = ComparedLimit
    /\ Cardinality({comparedCountryNames(State)[i].color :
                        i \in DOMAIN comparedCountryNames(State)}) = ComparedLimit

====
